---- MODULE Spec2Model ----
(***************************************************************************)
(* Lamport's distributed mutual exclusion as implemented by               *)
(* Assignment_1/lamport_node.py: N node processes, each an XML-RPC server *)
(* whose handlers run on their own threads, a main thread that runs one   *)
(* critical-section cycle, and one sender thread per outbound message.    *)
(*                                                                         *)
(* Granularity.  A step is one handler (request_critical_section,         *)
(* receive_reply, release_critical_section), one method of the main       *)
(* thread (request_cs, one successful poll of wait_for_cs_entry, enter_cs,*)
(* one increment_clock of the payload, exit_cs) or one half of a sender   *)
(* thread (the remote call, the handling of its response).  The counters  *)
(* messages_sent / messages_received are incremented within the step.     *)
(* A sender thread between its start and its call is a message in flight: *)
(* nothing orders two threads, so delivery is not FIFO, not even between  *)
(* one pair of nodes.                                                     *)
(***************************************************************************)
EXTENDS Integers, Sequences, FiniteSets, TLC

\* total_nodes: the number of node processes (ids 1..N)
N == 2

\* how many calls that come from no sender thread of the protocol the
\* open-server specification SpecRpc lets the XML-RPC servers receive
MaxStray == 1

\* the timestamps such a call may carry
MaxStrayTs == 2

\* in SpecRpc the nodes 1..RpcCycles run their cycle; the others are still in
\* run_server's time.sleep(request_delay), their servers already serving
RpcCycles == 1

\* number of increment_clock calls of execute_critical_section
PayloadTicks == 5

\* the peers of the one requesting node in SpecBroadcast, a system of
\* BroadcastPeers + 1 nodes
BroadcastPeers == 2

\* how many handler and sender threads SpecThreads follows one bytecode at a
\* time
MaxTasks == 3

Nodes == 1..N

Kinds == {"REQUEST", "REPLY", "RELEASE"}

VARIABLES
    lamport_clock,          \* [Nodes -> Nat]
    request_queue,          \* [Nodes -> Seq(<<ts, nid>>)], a heapq list
    replies_received,       \* [Nodes -> SUBSET Nodes]
    requesting_cs,          \* [Nodes -> BOOLEAN]
    in_cs,                  \* [Nodes -> BOOLEAN]
    my_request_timestamp,   \* [Nodes -> Nat], 0 is None
    cs_entry_count,         \* [Nodes -> Nat]
    cs_start_time,          \* [Nodes -> Nat], 0 is None
    cs_end_time,            \* [Nodes -> Nat], 0 is None
    messages_sent,          \* [Nodes -> Nat]
    messages_received,      \* [Nodes -> Nat]
    pc,                     \* [Nodes -> position of the main thread]
    work,                   \* [Nodes -> payload ticks done in this cycle]
    threads,                \* the sender threads alive: messages in flight
    calls,                  \* [Kinds \X Nodes \X Nodes -> Nat] remote calls made
    lost,                   \* [Kinds \X Nodes \X Nodes -> Nat] remote calls that raised
    stray,                  \* calls received from outside the protocol so far
    now,                    \* wall clock read by datetime.now()
    exit_ts,                \* [Nodes -> Nat] the local exit_ts of exit_cs, 0 before
    shutdown_flag,          \* [Nodes -> BOOLEAN] the process's shutdown_flag Event
    response,               \* what the last ping / get_statistics of a client returned
    ready_nodes,            \* coordinator: nodes that answered ping
    all_stats,              \* coordinator: [Nodes -> collected statistics]
    report,                 \* coordinator: verdicts of generate_final_report
    coord_pc,               \* coordinator: position in its main block
    tasks,                  \* [1..MaxTasks -> thread at bytecode granularity]
    clock_lock,             \* [Nodes -> task holding self.clock_lock, 0 if free]
    lieutenants,            \* Assignment_2: the count given to commander.py
    is_byzantine,           \* [1..lieutenants -> BOOLEAN] Node.is_byzantine
    order,                  \* the order given to commander.py
    received_orders,        \* [1..lieutenants -> [sender -> order]]
    decisions,              \* commander: [lieutenant -> value of decide_order]
    cmd_pc                  \* commander: position in its main block

nodeVars == <<lamport_clock, request_queue, replies_received, requesting_cs,
              in_cs, my_request_timestamp, cs_entry_count, cs_start_time,
              cs_end_time, messages_sent, messages_received>>

\* the coordinator process
coordVars == <<ready_nodes, all_stats, report, coord_pc>>

\* the commander and the lieutenants of the Byzantine agreement exercise
byzVars == <<lieutenants, is_byzantine, order, received_orders, decisions,
             cmd_pc>>

\* everything outside the protocol's own steps: the shutdown flags, the
\* coordinator, the last answer given to a client, the fine-grained threads
envVars == <<shutdown_flag, response, coordVars, tasks, clock_lock, byzVars>>

vars == <<lamport_clock, request_queue, replies_received, requesting_cs,
          in_cs, my_request_timestamp, cs_entry_count, cs_start_time,
          cs_end_time, messages_sent, messages_received, pc, work, threads,
          calls, lost, stray, now, exit_ts, envVars>>

\* nothing returned yet; all_stats has no entry for the node; no report yet
NoResponse == [op |-> "none"]

NoStats == [node_id |-> 0]

NoReport == [mutual_exclusion |-> "none", message_count |-> "none"]

\* a thread slot that has not been started
IdleTask == [st |-> "idle"]

----------------------------------------------------------------------------
\* Pure helpers

Max(a, b) == IF a >= b THEN a ELSE b

\* Python's tuple order on (timestamp, node_id)
TupleLess(a, b) == a[1] < b[1] \/ (a[1] = b[1] /\ a[2] < b[2])

\* for peer_id in range(1, total_nodes + 1): if peer_id != self.node_id
\* the node ids of the running system, range(1, total_nodes + 1), and their
\* number
Members == DOMAIN pc

total_nodes == Cardinality(Members)

Peers(n) == Members \ {n}

increment_clock(c) == c + 1

\* mutant: the merge forgets its own clock
update_clock_no_max(c, received_timestamp) == received_timestamp + 1

update_clock(c, received_timestamp) == Max(c, received_timestamp) + 1

\* heapq._siftdown(heap, startpos, pos) with the item being placed carried
\* along; positions are 1-based here, so the parent of pos is pos \div 2
RECURSIVE siftdown(_, _, _, _)
siftdown(heap, startpos, pos, newitem) ==
    IF pos > startpos /\ TupleLess(newitem, heap[pos \div 2])
    THEN siftdown([heap EXCEPT ![pos] = heap[pos \div 2]], startpos,
                  pos \div 2, newitem)
    ELSE [heap EXCEPT ![pos] = newitem]

\* heapq._siftup(heap, pos): bubble the smaller child up to a leaf, then
\* sift the item down from there
RECURSIVE siftup_loop(_, _, _, _)
siftup_loop(heap, startpos, pos, newitem) ==
    LET endpos == Len(heap)
        left == 2 * pos
        right == left + 1
        child == IF right <= endpos /\ ~TupleLess(heap[left], heap[right])
                 THEN right ELSE left
    IN  IF left <= endpos
        THEN siftup_loop([heap EXCEPT ![pos] = heap[child]], startpos,
                         child, newitem)
        ELSE siftdown(heap, startpos, pos, newitem)

siftup(heap, pos) == siftup_loop(heap, pos, pos, heap[pos])

\* heapq.heappush(heap, item)
heappush(heap, item) ==
    siftdown(Append(heap, item), 1, Len(heap) + 1, item)

\* heapq.heapify(x): for i in reversed(range(n // 2)): _siftup(x, i)
RECURSIVE heapify_from(_, _)
heapify_from(heap, i) ==
    IF i < 1 THEN heap ELSE heapify_from(siftup(heap, i), i - 1)

heapify(heap) == heapify_from(heap, Len(heap) \div 2)

\* mutant: the filter removes nothing
without_node_kept(queue, node_id) == queue

\* [(ts, nid) for ts, nid in self.request_queue if nid != node_id]
without_node(queue, node_id) ==
    SelectSeq(queue, LAMBDA e : e[2] # node_id)

\* the entries of a queue as a set, and those of one node as indices
Entries(queue) == {queue[i] : i \in DOMAIN queue}

EntriesOf(queue, node_id) == {i \in DOMAIN queue : queue[i][2] = node_id}

----------------------------------------------------------------------------
\* Sender threads.  st is "spawn" (a RELEASE thread that has not yet drawn
\* its timestamp), "call" (the remote call not yet made: the message is in
\* flight) or "resp" (the handler has returned, the response is in flight).

Thread(kind, src, dst, ts, st, resp) ==
    [kind |-> kind, src |-> src, dst |-> dst, ts |-> ts, st |-> st,
     resp |-> resp]

Key(kind, src, dst) == <<kind, src, dst>>

Count(log, m) == [log EXCEPT ![Key(m.kind, m.src, m.dst)] = @ + 1]

\* the commander's position: a phase and the two loop indices
CmdAt(phase, i, j) == [phase |-> phase, i |-> i, j |-> j]

\* no commander and no lieutenant is running
NoLieutenants ==
    /\ lieutenants = 0
    /\ is_byzantine = <<>>
    /\ order = "ATTACK"
    /\ received_orders = <<>>
    /\ decisions = <<>>
    /\ cmd_pc = CmdAt("none", 0, 0)

\* the Lamport nodes with the ids `ids` and their coordinator after
\* construction
InitNodes(ids) ==
    /\ lamport_clock = [n \in ids |-> 0]
    /\ request_queue = [n \in ids |-> <<>>]
    /\ replies_received = [n \in ids |-> {}]
    /\ requesting_cs = [n \in ids |-> FALSE]
    /\ in_cs = [n \in ids |-> FALSE]
    /\ my_request_timestamp = [n \in ids |-> 0]
    /\ cs_entry_count = [n \in ids |-> 0]
    /\ cs_start_time = [n \in ids |-> 0]
    /\ cs_end_time = [n \in ids |-> 0]
    /\ messages_sent = [n \in ids |-> 0]
    /\ messages_received = [n \in ids |-> 0]
    /\ pc = [n \in ids |-> "start"]
    /\ work = [n \in ids |-> 0]
    /\ threads = {}
    /\ calls = [k \in Kinds \X ids \X ids |-> 0]
    /\ lost = [k \in Kinds \X ids \X ids |-> 0]
    /\ stray = 0
    /\ now = 1
    /\ exit_ts = [n \in ids |-> 0]
    /\ shutdown_flag = [n \in ids |-> FALSE]
    /\ response = NoResponse
    /\ ready_nodes = {}
    /\ all_stats = [n \in ids |-> NoStats]
    /\ report = NoReport
    /\ coord_pc = <<"wait", 0>>
    /\ tasks = [t \in 1..MaxTasks |-> IdleTask]
    /\ clock_lock = [n \in ids |-> 0]

\* the state after construction of a system with the node ids `ids`
InitOf(ids) == InitNodes(ids) /\ NoLieutenants

Init == InitOf(Nodes)

----------------------------------------------------------------------------
\* RPC handlers: the effect on the serving node n.  The caller's own
\* bookkeeping (its thread, the call logs) is in the actions that use them.

\* the timestamp request_critical_section returns and puts in its REPLY
reply_ts_of(n, request_timestamp) ==
    increment_clock(update_clock(lamport_clock[n], request_timestamp))

\* mutant: a node inside the critical section defers its REPLY
reply_thread_deferred(n, requesting_node_id, reply_ts) ==
    IF in_cs[n] THEN {}
    ELSE {Thread("REPLY", n, requesting_node_id, reply_ts, "call", 0)}

\* the REPLY thread started by request_critical_section
reply_thread(n, requesting_node_id, reply_ts) ==
    {Thread("REPLY", n, requesting_node_id, reply_ts, "call", 0)}

\* mutant: the handler queues the request under a later timestamp
enqueue_request_restamped(queue, requesting_node_id, request_timestamp) ==
    heappush(queue, <<request_timestamp + 1, requesting_node_id>>)

\* the queue after the handler's heappush
enqueue_request(queue, requesting_node_id, request_timestamp) ==
    heappush(queue, <<request_timestamp, requesting_node_id>>)

request_critical_section(n, requesting_node_id, request_timestamp) ==
    /\ messages_received' = [messages_received EXCEPT ![n] = @ + 1]
    /\ request_queue' = [request_queue EXCEPT ![n] =
           enqueue_request(@, requesting_node_id, request_timestamp)]
    /\ lamport_clock' = [lamport_clock EXCEPT ![n] =
           reply_ts_of(n, request_timestamp)]
    /\ UNCHANGED <<replies_received, requesting_cs, in_cs,
                   my_request_timestamp, cs_entry_count, cs_start_time,
                   cs_end_time, messages_sent>>

\* mutant: a reply is recorded for every node, the receiver included
record_reply_all(replies, replying_node_id) == replies \cup Members

\* self.replies_received.add(replying_node_id)
record_reply(replies, replying_node_id) == replies \cup {replying_node_id}

receive_reply(n, replying_node_id, reply_timestamp) ==
    /\ messages_received' = [messages_received EXCEPT ![n] = @ + 1]
    /\ lamport_clock' = [lamport_clock EXCEPT ![n] =
           update_clock(@, reply_timestamp)]
    /\ replies_received' = [replies_received EXCEPT ![n] =
           record_reply(@, replying_node_id)]
    /\ UNCHANGED <<request_queue, requesting_cs, in_cs,
                   my_request_timestamp, cs_entry_count, cs_start_time,
                   cs_end_time, messages_sent>>

\* mutant: the filter keeps the releasing node's entries and drops the rest
remove_released_inverted(queue, releasing_node_id) ==
    heapify(SelectSeq(queue, LAMBDA e : e[2] = releasing_node_id))

\* mutant: the filtered list is not heapified
remove_released_unheaped(queue, releasing_node_id) ==
    without_node(queue, releasing_node_id)

\* mutant: only the first entry of the releasing node is removed
remove_released_first(queue, releasing_node_id) ==
    LET found == EntriesOf(queue, releasing_node_id)
        first == CHOOSE i \in found : \A j \in found : i <= j
    IN  IF found = {} THEN queue
        ELSE heapify(SubSeq(queue, 1, first - 1)
                         \o SubSeq(queue, first + 1, Len(queue)))

\* the queue after the handler's filter and heapify
remove_released(queue, releasing_node_id) ==
    heapify(without_node(queue, releasing_node_id))

release_critical_section(n, releasing_node_id, release_timestamp) ==
    /\ messages_received' = [messages_received EXCEPT ![n] = @ + 1]
    /\ lamport_clock' = [lamport_clock EXCEPT ![n] =
           update_clock(@, release_timestamp)]
    /\ request_queue' = [request_queue EXCEPT ![n] =
           remove_released(@, releasing_node_id)]
    /\ UNCHANGED <<replies_received, requesting_cs, in_cs,
                   my_request_timestamp, cs_entry_count, cs_start_time,
                   cs_end_time, messages_sent>>

----------------------------------------------------------------------------
\* The main thread of node n: execute_cs_cycle, called once by run_server

\* mutant: the loop forgets to skip the node itself
request_threads_to_all(n, req_ts) ==
    {Thread("REQUEST", n, p, req_ts, "call", 0) : p \in Members}

\* the REQUEST threads request_cs starts
request_threads(n, req_ts) ==
    {Thread("REQUEST", n, p, req_ts, "call", 0) : p \in Peers(n)}

\* the node's own queue after request_cs: filter, then heappush (no heapify)
own_enqueue(queue, n, req_ts) ==
    heappush(without_node(queue, n), <<req_ts, n>>)

request_cs(n) ==
    /\ pc[n] = "start"
    /\ LET req_ts == increment_clock(lamport_clock[n])
       IN  /\ requesting_cs' = [requesting_cs EXCEPT ![n] = TRUE]
           /\ replies_received' = [replies_received EXCEPT ![n] = {}]
           /\ lamport_clock' = [lamport_clock EXCEPT ![n] = req_ts]
           /\ my_request_timestamp' = [my_request_timestamp EXCEPT ![n] = req_ts]
           /\ request_queue' = [request_queue EXCEPT ![n] =
                  own_enqueue(@, n, req_ts)]
           /\ threads' = threads \cup request_threads(n, req_ts)
    /\ pc' = [pc EXCEPT ![n] = "wait"]
    /\ UNCHANGED <<in_cs, cs_entry_count, cs_start_time, cs_end_time,
                   messages_sent, messages_received, work, calls, lost,
                   stray, now, exit_ts,
                   envVars>>

\* mutant: the poll does not wait for the replies
all_replies_skipped(replies) == Cardinality(replies) <= total_nodes - 1

\* mutant: the poll takes the quorum as reached from the start
all_replies_unchecked(replies) == TRUE

\* len(self.replies_received) == (self.total_nodes - 1)
all_replies(replies) == Cardinality(replies) = total_nodes - 1

\* mutant: the poll does not look whose entry is at the head
at_head_any(queue, n) == Len(queue) > 0

\* len(queue) > 0 and queue[0] has head_nid == self.node_id
at_head(queue, n) == Len(queue) > 0 /\ queue[1][2] = n

\* One iteration of the poll that finds both conditions and breaks.  The two
\* locked reads of an iteration are taken together: replies_received only
\* grows while the main thread is in this loop, so all_replies found true at
\* the first read is still true at the second.  A failed iteration sleeps
\* and changes nothing.
wait_for_cs_entry(n) ==
    /\ pc[n] = "wait"
    /\ all_replies(replies_received[n])
    /\ at_head(request_queue[n], n)
    /\ pc' = [pc EXCEPT ![n] = "enter"]
    /\ UNCHANGED <<nodeVars, work, threads, calls, lost, stray, now, exit_ts,
                   envVars>>

enter_cs(n) ==
    /\ pc[n] = "enter"
    /\ cs_entry_count' = [cs_entry_count EXCEPT ![n] = @ + 1]
    /\ cs_start_time' = [cs_start_time EXCEPT ![n] = now]
    /\ now' = now + 1
    /\ lamport_clock' = [lamport_clock EXCEPT ![n] = increment_clock(@)]
    /\ in_cs' = [in_cs EXCEPT ![n] = TRUE]
    /\ pc' = [pc EXCEPT ![n] = "cs"]
    /\ work' = [work EXCEPT ![n] = 0]
    /\ UNCHANGED <<request_queue, replies_received, requesting_cs,
                   my_request_timestamp, cs_end_time, messages_sent,
                   messages_received, threads, calls, lost, stray, exit_ts,
                   envVars>>

\* one increment_clock of the payload: work_start_ts, three operation_ts,
\* work_end_ts
execute_critical_section(n) ==
    /\ pc[n] = "cs"
    /\ work[n] < PayloadTicks
    /\ lamport_clock' = [lamport_clock EXCEPT ![n] = increment_clock(@)]
    /\ work' = [work EXCEPT ![n] = @ + 1]
    /\ UNCHANGED <<request_queue, replies_received, requesting_cs, in_cs,
                   my_request_timestamp, cs_entry_count, cs_start_time,
                   cs_end_time, messages_sent, messages_received, pc,
                   threads, calls, lost, stray, now, exit_ts,
                   envVars>>

\* mutant: exit_cs starts no RELEASE thread
release_threads_none(n) == {}

\* the RELEASE threads exit_cs starts; each draws its own timestamp later
release_threads(n) ==
    {Thread("RELEASE", n, p, 0, "spawn", 0) : p \in Peers(n)}

\* mutant: exit_cs clears in_cs but leaves requesting_cs set
exit_cs_still_requesting(n) ==
    /\ pc[n] = "cs"
    /\ work[n] = PayloadTicks
    /\ cs_end_time' = [cs_end_time EXCEPT ![n] = now]
    /\ now' = now + 1
    /\ lamport_clock' = [lamport_clock EXCEPT ![n] = increment_clock(@)]
    /\ exit_ts' = [exit_ts EXCEPT ![n] = increment_clock(lamport_clock[n])]
    /\ in_cs' = [in_cs EXCEPT ![n] = FALSE]
    /\ request_queue' = [request_queue EXCEPT ![n] =
           heapify(without_node(@, n))]
    /\ threads' = threads \cup release_threads(n)
    /\ pc' = [pc EXCEPT ![n] = "done"]
    /\ UNCHANGED <<requesting_cs, replies_received, my_request_timestamp,
                   cs_entry_count, cs_start_time, messages_sent,
                   messages_received, work, calls, lost, stray, envVars>>

exit_cs(n) ==
    /\ pc[n] = "cs"
    /\ work[n] = PayloadTicks
    /\ cs_end_time' = [cs_end_time EXCEPT ![n] = now]
    /\ now' = now + 1
    /\ lamport_clock' = [lamport_clock EXCEPT ![n] = increment_clock(@)]
    /\ exit_ts' = [exit_ts EXCEPT ![n] = increment_clock(lamport_clock[n])]
    /\ in_cs' = [in_cs EXCEPT ![n] = FALSE]
    /\ requesting_cs' = [requesting_cs EXCEPT ![n] = FALSE]
    /\ request_queue' = [request_queue EXCEPT ![n] =
           heapify(without_node(@, n))]
    /\ threads' = threads \cup release_threads(n)
    /\ pc' = [pc EXCEPT ![n] = "done"]
    /\ UNCHANGED <<replies_received, my_request_timestamp, cs_entry_count,
                   cs_start_time, messages_sent, messages_received, work,
                   calls, lost, stray, envVars>>

----------------------------------------------------------------------------
\* Sender threads: _send_request_to_peer, _send_reply_to_node_with_new_proxy,
\* _send_release_to_peer

\* proxy.request_critical_section(self.node_id, req_ts) runs the handler on
\* the peer, which starts its REPLY thread and returns reply_ts
SendRequest(m) ==
    /\ m.kind = "REQUEST" /\ m.st = "call"
    /\ request_critical_section(m.dst, m.src, m.ts)
    /\ threads' = (threads \ {m})
           \cup {[m EXCEPT !.st = "resp", !.resp = reply_ts_of(m.dst, m.ts)]}
           \cup reply_thread(m.dst, m.src, reply_ts_of(m.dst, m.ts))
    /\ calls' = Count(calls, m)
    /\ UNCHANGED <<pc, work, lost, stray, now, exit_ts,
                   envVars>>

\* self.messages_sent += 1; self.update_clock(response['timestamp'])
RequestReturn(m) ==
    /\ m.kind = "REQUEST" /\ m.st = "resp"
    /\ messages_sent' = [messages_sent EXCEPT ![m.src] = @ + 1]
    /\ lamport_clock' = [lamport_clock EXCEPT ![m.src] = update_clock(@, m.resp)]
    /\ threads' = threads \ {m}
    /\ UNCHANGED <<request_queue, replies_received, requesting_cs, in_cs,
                   my_request_timestamp, cs_entry_count, cs_start_time,
                   cs_end_time, messages_received, pc, work, calls, lost,
                   stray, now, exit_ts,
                   envVars>>

\* temp_proxy.receive_reply(self.node_id, reply_ts)
SendReply(m) ==
    /\ m.kind = "REPLY" /\ m.st = "call"
    /\ receive_reply(m.dst, m.src, m.ts)
    /\ threads' = (threads \ {m})
           \cup {[m EXCEPT !.st = "resp",
                           !.resp = update_clock(lamport_clock[m.dst], m.ts)]}
    /\ calls' = Count(calls, m)
    /\ UNCHANGED <<pc, work, lost, stray, now, exit_ts,
                   envVars>>

\* self.messages_sent += 1 (the response's timestamp is not used)
ReplyReturn(m) ==
    /\ m.kind = "REPLY" /\ m.st = "resp"
    /\ messages_sent' = [messages_sent EXCEPT ![m.src] = @ + 1]
    /\ threads' = threads \ {m}
    /\ UNCHANGED <<lamport_clock, request_queue, replies_received,
                   requesting_cs, in_cs, my_request_timestamp, cs_entry_count,
                   cs_start_time, cs_end_time, messages_received, pc, work,
                   calls, lost, stray, now, exit_ts,
                   envVars>>

\* release_ts = self.increment_clock(), drawn by the thread itself
ReleaseStamp(m) ==
    /\ m.kind = "RELEASE" /\ m.st = "spawn"
    /\ lamport_clock' = [lamport_clock EXCEPT ![m.src] = increment_clock(@)]
    /\ threads' = (threads \ {m})
           \cup {[m EXCEPT !.st = "call",
                           !.ts = increment_clock(lamport_clock[m.src])]}
    /\ UNCHANGED <<request_queue, replies_received, requesting_cs, in_cs,
                   my_request_timestamp, cs_entry_count, cs_start_time,
                   cs_end_time, messages_sent, messages_received, pc, work,
                   calls, lost, stray, now, exit_ts,
                   envVars>>

\* proxy.release_critical_section(self.node_id, release_ts)
SendRelease(m) ==
    /\ m.kind = "RELEASE" /\ m.st = "call"
    /\ release_critical_section(m.dst, m.src, m.ts)
    /\ threads' = (threads \ {m})
           \cup {[m EXCEPT !.st = "resp",
                           !.resp = update_clock(lamport_clock[m.dst], m.ts)]}
    /\ calls' = Count(calls, m)
    /\ UNCHANGED <<pc, work, lost, stray, now, exit_ts,
                   envVars>>

\* self.messages_sent += 1; self.update_clock(response['timestamp'])
ReleaseReturn(m) ==
    /\ m.kind = "RELEASE" /\ m.st = "resp"
    /\ messages_sent' = [messages_sent EXCEPT ![m.src] = @ + 1]
    /\ lamport_clock' = [lamport_clock EXCEPT ![m.src] = update_clock(@, m.resp)]
    /\ threads' = threads \ {m}
    /\ UNCHANGED <<request_queue, replies_received, requesting_cs, in_cs,
                   my_request_timestamp, cs_entry_count, cs_start_time,
                   cs_end_time, messages_received, pc, work, calls, lost,
                   stray, now, exit_ts,
                   envVars>>

Main(n) ==
    \/ request_cs(n)
    \/ wait_for_cs_entry(n)
    \/ enter_cs(n)
    \/ execute_critical_section(n)
    \/ exit_cs(n)

Sender(m) ==
    \/ SendRequest(m)
    \/ RequestReturn(m)
    \/ SendReply(m)
    \/ ReplyReturn(m)
    \/ ReleaseStamp(m)
    \/ SendRelease(m)
    \/ ReleaseReturn(m)

Next ==
    \/ \E n \in Nodes : request_cs(n)
    \/ \E n \in Nodes : wait_for_cs_entry(n)
    \/ \E n \in Nodes : enter_cs(n)
    \/ \E n \in Nodes : execute_critical_section(n)
    \/ \E n \in Nodes : exit_cs(n)
    \/ \E m \in threads : SendRequest(m)
    \/ \E m \in threads : RequestReturn(m)
    \/ \E m \in threads : SendReply(m)
    \/ \E m \in threads : ReplyReturn(m)
    \/ \E m \in threads : ReleaseStamp(m)
    \/ \E m \in threads : SendRelease(m)
    \/ \E m \in threads : ReleaseReturn(m)

\* reliable delivery, any interleaving, any delay
Spec == Init /\ [][Next]_vars

\* every thread that can take a step eventually takes one
FairSpec ==
    /\ Spec
    /\ \A n \in Nodes : WF_vars(Main(n))
    /\ WF_vars(\E m \in threads : Sender(m))

----------------------------------------------------------------------------
\* Message loss.  Each sender thread wraps its call in try/except, logs and
\* ends: a call that raises is not repeated.

\* mutant: the exception ends the whole broadcast, as it would in a loop
\* that calls the peers one after the other without try/except
raised_in_broadcast(m) ==
    {t \in threads : t.kind = m.kind /\ t.src = m.src}

\* the threads an exception in thread m ends: the except clause is inside
\* the thread's own function
raised_in(m) == {m}

\* the call raises before the peer's handler has run
SendFails(m) ==
    /\ m.st = "call"
    /\ threads' = threads \ raised_in(m)
    /\ lost' = Count(lost, m)
    /\ UNCHANGED <<nodeVars, pc, work, calls, stray, now, exit_ts,
                   envVars>>

\* the handler has run but its response does not arrive: the call raises and
\* the lines after it (messages_sent, update_clock) are skipped
ResponseFails(m) ==
    /\ m.st = "resp"
    /\ threads' = threads \ raised_in(m)
    /\ UNCHANGED <<nodeVars, pc, work, calls, lost, stray, now, exit_ts,
                   envVars>>

NextLossy ==
    \/ Next
    \/ \E m \in threads : SendFails(m)
    \/ \E m \in threads : ResponseFails(m)

SpecLossy == Init /\ [][NextLossy]_vars

----------------------------------------------------------------------------
\* The open server.  server.register_instance(node) exposes the three
\* handlers to every XML-RPC client, so a node can be handed a call that no
\* sender thread of the protocol made: any node id, any timestamp.

StrayRequest(n, node_id, ts) ==
    /\ stray < MaxStray
    /\ request_critical_section(n, node_id, ts)
    /\ threads' = threads \cup reply_thread(n, node_id, reply_ts_of(n, ts))
    /\ stray' = stray + 1
    /\ UNCHANGED <<pc, work, calls, lost, now, exit_ts,
                   envVars>>

StrayReply(n, node_id, ts) ==
    /\ stray < MaxStray
    /\ receive_reply(n, node_id, ts)
    /\ stray' = stray + 1
    /\ UNCHANGED <<pc, work, threads, calls, lost, now, exit_ts,
                   envVars>>

StrayRelease(n, node_id, ts) ==
    /\ stray < MaxStray
    /\ release_critical_section(n, node_id, ts)
    /\ stray' = stray + 1
    /\ UNCHANGED <<pc, work, threads, calls, lost, now, exit_ts,
                   envVars>>

NextRpc ==
    \/ \E n \in 1..RpcCycles : request_cs(n)
    \/ \E n \in 1..RpcCycles : wait_for_cs_entry(n)
    \/ \E n \in 1..RpcCycles : enter_cs(n)
    \/ \E n \in 1..RpcCycles : execute_critical_section(n)
    \/ \E n \in 1..RpcCycles : exit_cs(n)
    \/ \E m \in threads : SendRequest(m)
    \/ \E m \in threads : RequestReturn(m)
    \/ \E m \in threads : SendReply(m)
    \/ \E m \in threads : ReplyReturn(m)
    \/ \E m \in threads : ReleaseStamp(m)
    \/ \E m \in threads : SendRelease(m)
    \/ \E m \in threads : ReleaseReturn(m)
    \/ \E n \in Nodes, c \in Nodes, ts \in 1..MaxStrayTs : StrayRequest(n, c, ts)
    \/ \E n \in Nodes, c \in Nodes, ts \in 1..MaxStrayTs : StrayReply(n, c, ts)
    \/ \E n \in Nodes, c \in Nodes, ts \in 1..MaxStrayTs : StrayRelease(n, c, ts)

\* the protocol of the nodes whose cycle has begun, with stray calls
SpecRpc == Init /\ [][NextRpc]_vars

----------------------------------------------------------------------------
\* C1 (mutual exclusion): under reliable delivery no reachable state has two
\* different nodes inside the critical section (in_cs true) at once.
MutualExclusion ==
    \A a \in Nodes : \A b \in Nodes :
        (a # b) => ~(in_cs[a] /\ in_cs[b])

\* the node's own request (my_request_timestamp, node_id) is in its queue and
\* no entry of the queue is smaller under (timestamp, node id)
OwnIsMinimum(n) ==
    LET own == <<my_request_timestamp[n], n>>
    IN  /\ own \in Entries(request_queue[n])
        /\ \A e \in Entries(request_queue[n]) : ~TupleLess(e, own)

\* C2 (safety of entry): at the step that sets in_cs of a node, its
\* replies_received holds all N-1 other node ids and its own request is the
\* minimum of its local queue, both at that step.
EntryConditionsAtEntry ==
    [][\A n \in Nodes :
          (~in_cs[n] /\ in_cs'[n]) =>
              (replies_received[n] = Peers(n) /\ OwnIsMinimum(n))]_vars

\* every node has run its cycle and entered exactly once
AllEnteredOnce ==
    \A n \in Nodes : pc[n] = "done" /\ cs_entry_count[n] = 1

\* C3 (liveness under reliable delivery): with fair scheduling and no loss
\* every node eventually enters the critical section, and its cs_entry_count
\* is never more than 1 and ends at exactly 1.
EveryNodeEntersOnce ==
    /\ \A n \in Nodes : <>in_cs[n]
    /\ [](\A n \in Nodes : cs_entry_count[n] <= 1)
    /\ <>[](\A n \in Nodes : cs_entry_count[n] = 1)

\* how often entry e occurs in a queue
CountIn(queue, e) == Cardinality({i \in DOMAIN queue : queue[i] = e})

\* node n handles release_critical_section(x, _) in this step, called by a
\* RELEASE thread of x or by another client
ReleaseHandled(n, x) ==
    \/ \E m \in threads : m.dst = n /\ m.src = x /\ SendRelease(m)
    \/ \E ts \in 1..MaxStrayTs : StrayRelease(n, x, ts)

\* C4 (release clears state): right after node n has handled
\* release_critical_section(x, ts) its queue holds no entry of x, however many
\* it held before, and holds every entry of the other nodes as often as
\* before.
ReleaseClearsState ==
    [][\A n \in Nodes : \A x \in Nodes :
          ReleaseHandled(n, x) =>
              /\ EntriesOf(request_queue'[n], x) = {}
              /\ \A e \in Entries(request_queue[n]) :
                     (e[2] # x) =>
                         CountIn(request_queue'[n], e) = CountIn(request_queue[n], e)
              /\ \A e \in Entries(request_queue'[n]) :
                     e \in Entries(request_queue[n])]_vars

\* node 2 has served a REQUEST of node 1 twice (two REPLY calls were made),
\* so its queue held two entries of node 1, then the RELEASE of node 1, whose
\* response is still in flight, and its queue holds no entry of node 1
ReleasedTwoEntries ==
    /\ calls[Key("REPLY", 2, 1)] = 2
    /\ \E m \in threads : m.kind = "RELEASE" /\ m.st = "resp" /\ m.dst = 2
    /\ EntriesOf(request_queue[2], 1) = {}

\* the clock of node n after a tick is its clock + 1
Ticked(n) == lamport_clock'[n] = lamport_clock[n] + 1

\* the clock of node n after merging t is max(clock, t) + 1, more than both
Merged(n, t) ==
    /\ lamport_clock'[n] = Max(lamport_clock[n], t) + 1
    /\ lamport_clock'[n] > lamport_clock[n]
    /\ lamport_clock'[n] >= t + 1

\* C5 (clock monotonicity): no step lowers a node's clock; a step that calls
\* increment_clock adds 1 and hands out the new value, a step that calls
\* update_clock(t) sets the clock to max(clock, t) + 1, so at least t + 1 and
\* more than before (request_critical_section merges, then ticks).
ClockMonotonicity ==
    [][/\ \A n \in Nodes : lamport_clock'[n] >= lamport_clock[n]
       /\ \A n \in Nodes :
             /\ request_cs(n) =>
                    Ticked(n) /\ my_request_timestamp'[n] = lamport_clock[n] + 1
             /\ (enter_cs(n) \/ execute_critical_section(n) \/ exit_cs(n)) =>
                    Ticked(n)
       /\ \A m \in threads :
             /\ ReleaseStamp(m) => Ticked(m.src)
             /\ SendRequest(m) =>
                    /\ lamport_clock'[m.dst] = Max(lamport_clock[m.dst], m.ts) + 2
                    /\ \E r \in threads' :
                           /\ r.kind = "REPLY" /\ r.src = m.dst
                           /\ r.ts = lamport_clock'[m.dst]
                           /\ r.ts > m.ts + 1
             /\ (SendReply(m) \/ SendRelease(m)) => Merged(m.dst, m.ts)
             /\ (RequestReturn(m) \/ ReleaseReturn(m)) => Merged(m.src, m.resp)]_vars

\* a node that has not yet ticked on its own has merged a REQUEST stamped
\* above its clock (0 -> 2, then the tick to 3), and a node inside the
\* critical section has merged the response to a call it made
ClockMerged ==
    /\ \E n \in Nodes :
           pc[n] = "start" /\ messages_received[n] = 1 /\ lamport_clock[n] = 3
    /\ \E n \in Nodes : pc[n] = "cs" /\ messages_sent[n] >= 1

\* the sends of one kind from src to dst: calls made and calls still to be
\* made by a live thread
Sends(kind, src, dst) ==
    calls[Key(kind, src, dst)]
        + Cardinality({m \in threads :
               m.kind = kind /\ m.src = src /\ m.dst = dst
                   /\ m.st \in {"spawn", "call"}})

\* C6 (message volume): without loss, a node that has gone through request,
\* enter and exit has sent exactly one REQUEST and exactly one RELEASE to each
\* other node and none to itself, and each other node has sent it exactly one
\* REPLY, in response to that REQUEST.
MessageVolume ==
    \A n \in Nodes :
        /\ \A k \in Kinds : Sends(k, n, n) = 0
        /\ \A p \in Nodes \ {n} :
              /\ Sends("REQUEST", n, p) = (IF pc[n] = "start" THEN 0 ELSE 1)
              /\ Sends("RELEASE", n, p) = (IF pc[n] = "done" THEN 1 ELSE 0)
              /\ Sends("REPLY", p, n) = calls[Key("REQUEST", n, p)]
              /\ pc[n] \in {"enter", "cs", "done"} =>
                     calls[Key("REPLY", p, n)] = 1

\* every cycle is over and every message has been delivered
AllCyclesComplete ==
    /\ threads = {}
    /\ \A n \in Nodes : pc[n] = "done"
    /\ \A n \in Nodes : \A p \in Nodes \ {n} : \A k \in Kinds :
           calls[Key(k, n, p)] = 1

\* node n handles receive_reply(c, _) in this step and the REPLY answers no
\* outstanding request of n: it comes from no REPLY thread, or n is not
\* requesting
StaleReplyHandled(n, c) ==
    \/ \E ts \in 1..MaxStrayTs : StrayReply(n, c, ts)
    \/ /\ ~requesting_cs[n]
       /\ \E m \in threads : m.dst = n /\ m.src = c /\ SendReply(m)

\* C7 (stale replies are ignored): a REPLY that does not answer the node's
\* current outstanding request is not added to replies_received and does not
\* count toward the quorum.
StaleReplyIgnored ==
    [][\A n \in Nodes : \A c \in Nodes :
          StaleReplyHandled(n, c) =>
              replies_received'[n] = replies_received[n]]_vars

\* each message has had at most one sender thread: made, failed or in flight
AttemptedOnce ==
    \A k \in Kinds : \A s \in Nodes : \A d \in Nodes :
        /\ Sends(k, s, d) + lost[Key(k, s, d)] <= 1
        /\ Cardinality({m \in threads :
               m.kind = k /\ m.src = s /\ m.dst = d}) <= 1

\* node y waits behind the entry of node x, whose RELEASE to y has failed
BehindLostRelease(y, x) ==
    /\ lost[Key("RELEASE", x, y)] > 0
    /\ pc[y] = "wait"
    /\ TupleLess(<<my_request_timestamp[x], x>>, <<my_request_timestamp[y], y>>)

\* C8 (no retry, liveness gap): a send that has failed is never made again;
\* a node whose REPLY was lost never leaves wait_for_cs_entry; the entry of a
\* node whose RELEASE to y was lost stays in y's queue and a node y waiting
\* behind it never leaves wait_for_cs_entry; the wait ends only by the entry
\* condition, never by a timeout.
NoRetryBlocksForever ==
    /\ [](AttemptedOnce)
    /\ [](\A x \in Nodes : \A y \in Nodes :
             /\ lost[Key("REPLY", y, x)] > 0 =>
                    pc[x] = "wait" /\ cs_entry_count[x] = 0
             /\ lost[Key("RELEASE", x, y)] > 0 =>
                    <<my_request_timestamp[x], x>> \in Entries(request_queue[y]))
    /\ [][\A y \in Nodes :
             /\ (\E x \in Nodes : BehindLostRelease(y, x)) => pc'[y] = "wait"
             /\ (pc[y] = "wait" /\ pc'[y] # "wait") =>
                    /\ Cardinality(replies_received[y]) = N - 1
                    /\ request_queue[y][1][2] = y]_vars

\* nothing is in flight, a node has finished and the RELEASE it sent to a node
\* behind it was lost: that node waits and no step is left to wake it
StuckBehindLostRelease ==
    /\ threads = {}
    /\ \E x \in Nodes : \E y \in Nodes :
           pc[x] = "done" /\ BehindLostRelease(y, x)

\* a node between its request_cs and its exit_cs
HasOwnRequest(n) == pc[n] \in {"wait", "enter", "cs"}

\* C9 (own request stays queued): from request_cs until exit_cs the node's
\* own queue holds its entry (my_request_timestamp, node_id), once; no
\* handler of an inbound REQUEST, REPLY or RELEASE removes or changes it.
OwnRequestStaysQueued ==
    \A n \in Nodes :
        HasOwnRequest(n) =>
            /\ CountIn(request_queue[n], <<my_request_timestamp[n], n>>) = 1
            /\ Cardinality(EntriesOf(request_queue[n], n)) = 1

\* a node that still holds its own request has handled the REQUEST and the
\* RELEASE of another node, and a REPLY
HandledAllWhileQueued ==
    \E n \in Nodes : \E p \in Nodes \ {n} :
        /\ HasOwnRequest(n)
        /\ calls[Key("REQUEST", p, n)] = 1
        /\ calls[Key("RELEASE", p, n)] = 1
        /\ calls[Key("REPLY", p, n)] = 1

\* C10 (at most one queue entry per node): no queue ever holds two entries
\* with the same node id; a REQUEST from a node that has an entry replaces it.
AtMostOneEntryPerNode ==
    \A n \in Nodes : \A x \in Nodes :
        Cardinality(EntriesOf(request_queue[n], x)) <= 1

----------------------------------------------------------------------------
\* The remaining handlers of the XML-RPC server (ping, get_statistics,
\* shutdown) and the end of run_server.

\* return {'status': 'alive', 'node_id': self.node_id}
PingReply(n) == [status |-> "alive", node_id |-> n]

\* the dictionary get_statistics returns
StatsReply(n) ==
    [node_id |-> n,
     cs_entries |-> cs_entry_count[n],
     messages_sent |-> messages_sent[n],
     messages_received |-> messages_received[n],
     lamport_clock |-> lamport_clock[n],
     cs_start_time |-> cs_start_time[n],
     cs_end_time |-> cs_end_time[n]]

\* the server of node n still answers: run_server has not reached
\* server.shutdown()
Serving(n) == pc[n] # "stopped"

ping(n) == UNCHANGED <<nodeVars, shutdown_flag>>

\* mutant: the handler counts itself as a received message, as the three
\* protocol handlers do
get_statistics_counted(n) ==
    /\ messages_received' = [messages_received EXCEPT ![n] = @ + 1]
    /\ UNCHANGED <<lamport_clock, request_queue, replies_received,
                   requesting_cs, in_cs, my_request_timestamp, cs_entry_count,
                   cs_start_time, cs_end_time, messages_sent, shutdown_flag>>

get_statistics(n) == UNCHANGED <<nodeVars, shutdown_flag>>

\* shutdown_flag.set(); return True
shutdown(n) ==
    /\ shutdown_flag' = [shutdown_flag EXCEPT ![n] = TRUE]
    /\ UNCHANGED nodeVars

\* a client (the coordinator's wait_for_nodes, or anyone) calls ping
ClientPing(n) ==
    /\ Serving(n)
    /\ ping(n)
    /\ response' = [op |-> "ping", node |-> n, value |-> PingReply(n)]
    /\ UNCHANGED <<pc, work, threads, calls, lost, stray, now, exit_ts,
                   coordVars, tasks, clock_lock,
                   byzVars>>

\* a client calls get_statistics; the dictionary is built when the handler
\* returns
ClientStats(n) ==
    /\ Serving(n)
    /\ get_statistics(n)
    /\ response' = [op |-> "get_statistics", node |-> n,
                    value |-> StatsReply(n)']
    /\ UNCHANGED <<pc, work, threads, calls, lost, stray, now, exit_ts,
                   coordVars, tasks, clock_lock,
                   byzVars>>

\* a client calls shutdown
ClientShutdown(n) ==
    /\ Serving(n)
    /\ shutdown(n)
    /\ UNCHANGED <<pc, work, threads, calls, lost, stray, now, exit_ts,
                   response, coordVars, tasks, clock_lock,
                   byzVars>>

\* mutant: the flag alone ends the process, whatever the main thread is doing
may_stop_on_flag(n) == shutdown_flag[n] /\ Serving(n)

\* run_server reaches `while not shutdown_flag.is_set()` only when
\* execute_cs_cycle has returned, and leaves the loop when the flag is set
may_stop(n) == pc[n] = "done" /\ shutdown_flag[n]

\* server.shutdown() and the end of the process: its sender threads are
\* daemon threads and end with it
stop_server(n) ==
    /\ may_stop(n)
    /\ pc' = [pc EXCEPT ![n] = "stopped"]
    /\ threads' = {m \in threads : m.src # n}
    /\ UNCHANGED <<nodeVars, work, calls, lost, stray, now, exit_ts, envVars>>

NextClient ==
    \/ \E n \in 1..RpcCycles : request_cs(n)
    \/ \E n \in 1..RpcCycles : wait_for_cs_entry(n)
    \/ \E n \in 1..RpcCycles : enter_cs(n)
    \/ \E n \in 1..RpcCycles : execute_critical_section(n)
    \/ \E n \in 1..RpcCycles : exit_cs(n)
    \/ \E m \in threads : Serving(m.dst) /\ SendRequest(m)
    \/ \E m \in threads : RequestReturn(m)
    \/ \E m \in threads : Serving(m.dst) /\ SendReply(m)
    \/ \E m \in threads : ReplyReturn(m)
    \/ \E m \in threads : ReleaseStamp(m)
    \/ \E m \in threads : Serving(m.dst) /\ SendRelease(m)
    \/ \E m \in threads : ReleaseReturn(m)
    \/ \E n \in Nodes : ClientPing(n)
    \/ \E n \in Nodes : ClientStats(n)
    \/ \E n \in Nodes : ClientShutdown(n)
    \/ \E n \in Nodes : stop_server(n)

\* the nodes whose cycle has begun, with clients that may call ping,
\* get_statistics and shutdown at any moment
SpecClient == Init /\ [][NextClient]_vars

\* every thread that can take a step eventually takes one; the clients are
\* under no obligation to call
FairSpecClient ==
    /\ SpecClient
    /\ \A n \in 1..RpcCycles : WF_vars(Main(n))
    /\ WF_vars(\E m \in threads :
                   (m.st = "call" => Serving(m.dst)) /\ Sender(m))
    /\ \A n \in Nodes : WF_vars(stop_server(n))

----------------------------------------------------------------------------
\* C11 (read-only queries): a ping or get_statistics call changes nothing of
\* the node (clock, queue, replies, counters, flags, main thread, sender
\* threads), and a get_statistics call made while the node's statistics are
\* still what the previous call returned returns the identical dictionary.
QueriesReadOnly ==
    [][\A n \in Nodes :
          /\ (ClientPing(n) \/ ClientStats(n)) =>
                 UNCHANGED <<nodeVars, pc, work, threads, shutdown_flag>>
          /\ ( /\ ClientStats(n)
               /\ response = [op |-> "get_statistics", node |-> n,
                              value |-> StatsReply(n)] )
                 => response' = response]_vars

\* get_statistics has just answered for a node that has handled and sent
\* messages, and its answer is still current
StatsAnswered ==
    /\ response.op = "get_statistics"
    /\ response.value = StatsReply(response.node)
    /\ response.value.messages_received > 0
    /\ response.value.messages_sent > 0

----------------------------------------------------------------------------
\* C12 (single release timestamp): every RELEASE message a node sends after
\* an exit carries the timestamp exit_cs drew with its one tick (exit_ts).
ReleaseCarriesExitTs ==
    \A m \in threads :
        (m.kind = "RELEASE" /\ m.st \in {"call", "resp"}) =>
            m.ts = exit_ts[m.src]

----------------------------------------------------------------------------
\* C13 (every peer has ordered the request before entry): whenever node x is
\* inside the critical section, the queue of every other node holds x's
\* entry (my_request_timestamp of x, x).
PeersHoldEntryOfNodeInCs ==
    \A x \in Nodes : \A y \in Peers(x) :
        in_cs[x] => <<my_request_timestamp[x], x>> \in Entries(request_queue[y])

\* a node is inside while a peer, itself waiting, holds both entries
InCsWhilePeerWaits ==
    \E x \in Nodes : \E y \in Peers(x) :
        /\ in_cs[x]
        /\ pc[y] = "wait"
        /\ Len(request_queue[y]) = 2

----------------------------------------------------------------------------
\* C14 (shutdown after the cycle): a shutdown call changes nothing but the
\* flag; a node stops only from the end of its cycle with the flag set, so a
\* shutdown that arrives while it is requesting, waiting or inside the
\* critical section does not interrupt the cycle; and a node whose cycle has
\* finished and whose flag is set eventually stops.
ShutdownWaitsForCycle ==
    /\ [][\A n \in Nodes :
             /\ ClientShutdown(n) =>
                    UNCHANGED <<nodeVars, pc, work, threads, exit_ts>>
             /\ (pc[n] # "stopped" /\ pc'[n] = "stopped") =>
                    (pc[n] = "done" /\ shutdown_flag[n])
             /\ (shutdown_flag[n] /\ pc[n] \in {"wait", "enter", "cs"}) =>
                    pc'[n] \in {"wait", "enter", "cs", "done"}]_vars
    /\ \A n \in Nodes :
           (pc[n] = "done" /\ shutdown_flag[n]) ~> (pc[n] = "stopped")

\* the shutdown call has arrived while the node is inside the critical
\* section, and the node is still inside
ShutdownDuringCs ==
    \E n \in Nodes : shutdown_flag[n] /\ in_cs[n] /\ pc[n] = "cs"

----------------------------------------------------------------------------
\* A broadcast to more than one peer, with message loss: a system of
\* BroadcastPeers + 1 nodes in which the nodes 1..RpcCycles run their cycle.

InitBroadcast == InitOf(1..(BroadcastPeers + 1))

NextBroadcast ==
    \/ \E n \in 1..RpcCycles : request_cs(n)
    \/ \E n \in 1..RpcCycles : wait_for_cs_entry(n)
    \/ \E n \in 1..RpcCycles : enter_cs(n)
    \/ \E n \in 1..RpcCycles : execute_critical_section(n)
    \/ \E n \in 1..RpcCycles : exit_cs(n)
    \/ \E m \in threads : SendRequest(m)
    \/ \E m \in threads : RequestReturn(m)
    \/ \E m \in threads : SendReply(m)
    \/ \E m \in threads : ReplyReturn(m)
    \/ \E m \in threads : ReleaseStamp(m)
    \/ \E m \in threads : SendRelease(m)
    \/ \E m \in threads : ReleaseReturn(m)
    \/ \E m \in threads : SendFails(m)
    \/ \E m \in threads : ResponseFails(m)

SpecBroadcast == InitBroadcast /\ [][NextBroadcast]_vars

\* the queue, the replies and the flags of node n
ProtocolState(n) ==
    <<request_queue[n], replies_received[n], requesting_cs[n], in_cs[n]>>

\* C15 (independent per-peer failure): when a REQUEST or RELEASE send to one
\* peer fails, every other sender thread (the sends of the same broadcast to
\* the other peers among them) is left as it was, the main threads stay where
\* they are (no error reaches the node's own sequence), and the sender's
\* queue, replies and flags are unchanged, exactly as they are by a send that
\* succeeds.
FailedSendIsIsolated ==
    [][\A m \in threads :
          (m.kind \in {"REQUEST", "RELEASE"}) =>
              /\ (SendFails(m) \/ ResponseFails(m)) =>
                     /\ threads' = threads \ {m}
                     /\ UNCHANGED <<pc, work>>
                     /\ \A n \in Members : ProtocolState(n)' = ProtocolState(n)
              /\ ( \/ SendRequest(m) \/ RequestReturn(m)
                   \/ SendRelease(m) \/ ReleaseReturn(m) ) =>
                     ProtocolState(m.src)' = ProtocolState(m.src)]_vars

\* the RELEASE to one peer has failed, the RELEASE of the same exit to
\* another peer has been delivered, and the node has finished its cycle
OneReleaseLostOthersDelivered ==
    \E n \in Members : \E p \in Peers(n) : \E q \in Peers(n) :
        /\ p # q
        /\ lost[<<"RELEASE", n, p>>] = 1
        /\ calls[<<"RELEASE", n, q>>] = 1
        /\ pc[n] = "done"

----------------------------------------------------------------------------
\* The threads of one process, one bytecode at a time.  SpecThreads follows
\* only the statements that touch the counters and the clock:
\*   handler  self.messages_received += 1; self.update_clock(timestamp)
\*            (the first two statements of the three protocol handlers)
\*   sender   self.messages_sent += 1; self.update_clock(response['timestamp'])
\*            (what _send_request_to_peer and _send_release_to_peer do with
\*            the response)
\*   main     self.cs_entry_count += 1; self.increment_clock()   (enter_cs)
\* `x += 1` on an attribute is a load, an add and a store, and no lock is
\* held around the three counters; increment_clock and update_clock take
\* self.clock_lock.  What the handlers do to the queue and the replies is
\* followed by the other specifications.

TaskKinds == {"handler", "sender", "main"}

\* the threads that have been started
Started == {t \in 1..MaxTasks : tasks[t].st # "idle"}

\* the counter a thread of this kind increments, on node n
counter_value(kind, n) ==
    IF kind = "handler" THEN messages_received[n]
    ELSE IF kind = "sender" THEN messages_sent[n]
    ELSE cs_entry_count[n]

\* mutant: the clock is read and written without the lock
lock_free_ignored(holder) == TRUE

\* `with self.clock_lock:` can be entered
lock_free(holder) == holder = 0

\* max(self.lamport_clock, received_timestamp) + 1 for update_clock,
\* self.lamport_clock + 1 for increment_clock
clock_after(kind, c, ts) ==
    IF kind = "main" THEN increment_clock(c) ELSE update_clock(c, ts)

\* a thread starts on node n; all followed threads are of one process, and a
\* process has one main thread, which enters once
StartThread(t, n, kind, ts) ==
    /\ tasks[t].st = "idle"
    /\ \A u \in Started : tasks[u].node = n
    /\ kind = "main" => \A u \in Started : tasks[u].kind # "main"
    /\ tasks' = [tasks EXCEPT ![t] =
           [st |-> "load", node |-> n, kind |-> kind,
            ts |-> IF kind = "main" THEN 0 ELSE ts, reg |-> 0, ret |-> 0]]
    /\ UNCHANGED <<nodeVars, pc, work, threads, calls, lost, stray, now,
                   exit_ts, shutdown_flag, response, coordVars, clock_lock,
                   byzVars>>

\* LOAD_ATTR of the counter
LoadCounter(t) ==
    /\ tasks[t].st = "load"
    /\ tasks' = [tasks EXCEPT ![t].st = "store",
                              ![t].reg = counter_value(tasks[t].kind,
                                                       tasks[t].node)]
    /\ UNCHANGED <<nodeVars, pc, work, threads, calls, lost, stray, now,
                   exit_ts, shutdown_flag, response, coordVars, clock_lock,
                   byzVars>>

\* STORE_ATTR of the loaded value + 1
StoreCounter(t) ==
    /\ tasks[t].st = "store"
    /\ LET n == tasks[t].node
           v == tasks[t].reg + 1
       IN  /\ messages_received' = IF tasks[t].kind = "handler"
                  THEN [messages_received EXCEPT ![n] = v]
                  ELSE messages_received
           /\ messages_sent' = IF tasks[t].kind = "sender"
                  THEN [messages_sent EXCEPT ![n] = v]
                  ELSE messages_sent
           /\ cs_entry_count' = IF tasks[t].kind = "main"
                  THEN [cs_entry_count EXCEPT ![n] = v]
                  ELSE cs_entry_count
    /\ tasks' = [tasks EXCEPT ![t].st = "lock"]
    /\ UNCHANGED <<lamport_clock, request_queue, replies_received,
                   requesting_cs, in_cs, my_request_timestamp, cs_start_time,
                   cs_end_time, pc, work, threads, calls, lost, stray, now,
                   exit_ts, shutdown_flag, response, coordVars, clock_lock,
                   byzVars>>

\* with self.clock_lock:
AcquireClockLock(t) ==
    /\ tasks[t].st = "lock"
    /\ lock_free(clock_lock[tasks[t].node])
    /\ clock_lock' = [clock_lock EXCEPT ![tasks[t].node] = t]
    /\ tasks' = [tasks EXCEPT ![t].st = "read"]
    /\ UNCHANGED <<nodeVars, pc, work, threads, calls, lost, stray, now,
                   exit_ts, shutdown_flag, response, coordVars,
                   byzVars>>

\* the read of self.lamport_clock on the right-hand side
ReadClock(t) ==
    /\ tasks[t].st = "read"
    /\ tasks' = [tasks EXCEPT ![t].st = "write",
                              ![t].reg = lamport_clock[tasks[t].node]]
    /\ UNCHANGED <<nodeVars, pc, work, threads, calls, lost, stray, now,
                   exit_ts, shutdown_flag, response, coordVars, clock_lock,
                   byzVars>>

\* the store to self.lamport_clock, and the value the call returns
WriteClock(t) ==
    /\ tasks[t].st = "write"
    /\ LET v == clock_after(tasks[t].kind, tasks[t].reg, tasks[t].ts)
       IN  /\ lamport_clock' = [lamport_clock EXCEPT ![tasks[t].node] = v]
           /\ tasks' = [tasks EXCEPT ![t].st = "unlock", ![t].ret = v]
    /\ UNCHANGED <<request_queue, replies_received, requesting_cs, in_cs,
                   my_request_timestamp, cs_entry_count, cs_start_time,
                   cs_end_time, messages_sent, messages_received, pc, work,
                   threads, calls, lost, stray, now, exit_ts, shutdown_flag,
                   response, coordVars, clock_lock,
                   byzVars>>

\* the end of the with block
ReleaseClockLock(t) ==
    /\ tasks[t].st = "unlock"
    /\ clock_lock' = [clock_lock EXCEPT ![tasks[t].node] = 0]
    /\ tasks' = [tasks EXCEPT ![t].st = "done"]
    /\ UNCHANGED <<nodeVars, pc, work, threads, calls, lost, stray, now,
                   exit_ts, shutdown_flag, response, coordVars,
                   byzVars>>

NextThreads ==
    \/ \E t \in 1..MaxTasks, n \in Nodes, kind \in TaskKinds,
          ts \in 1..MaxStrayTs : StartThread(t, n, kind, ts)
    \/ \E t \in 1..MaxTasks : LoadCounter(t)
    \/ \E t \in 1..MaxTasks : StoreCounter(t)
    \/ \E t \in 1..MaxTasks : AcquireClockLock(t)
    \/ \E t \in 1..MaxTasks : ReadClock(t)
    \/ \E t \in 1..MaxTasks : WriteClock(t)
    \/ \E t \in 1..MaxTasks : ReleaseClockLock(t)

SpecThreads == Init /\ [][NextThreads]_vars

----------------------------------------------------------------------------
\* C16 (monotonic statistics): whatever the interleaving of the handler and
\* sender threads of a node, none of cs_entry_count, messages_sent,
\* messages_received and lamport_clock is smaller after a step than before.
StatisticsNeverDecrease ==
    [][\A n \in Nodes :
          /\ cs_entry_count'[n] >= cs_entry_count[n]
          /\ messages_sent'[n] >= messages_sent[n]
          /\ messages_received'[n] >= messages_received[n]
          /\ lamport_clock'[n] >= lamport_clock[n]]_vars

\* the threads whose clock call has returned
Returned == {t \in Started : tasks[t].st \in {"unlock", "done"}}

\* C17 (atomic clock operations): any two increment_clock / update_clock
\* calls on a node return different values, and after k calls the clock is at
\* least k (its initial value is 0).
ClockCallsAtomic ==
    /\ \A t \in Returned : \A u \in Returned :
           (t # u) => tasks[t].ret # tasks[u].ret
    /\ \A n \in Nodes :
           lamport_clock[n] >=
               Cardinality({t \in Returned : tasks[t].node = n})

\* one call has returned, a second is inside the lock, a third waits for it
ClockLockContended ==
    \E t \in Started : \E u \in Started : \E v \in Started :
        /\ tasks[t].st = "done"
        /\ tasks[u].st \in {"read", "write"}
        /\ clock_lock[tasks[u].node] = u
        /\ tasks[v].st = "lock"

----------------------------------------------------------------------------
\* The coordinator process (Assignment_1/coordinator.py): wait_for_nodes,
\* the sleep, collect_statistics, generate_final_report, shutdown_nodes.

RECURSIVE SumOver(_, _, _)
\* sum(stats[field] for stats in all_stats.values()) over the nodes in `ids`
SumOver(stats, field, ids) ==
    IF ids = {} THEN 0
    ELSE LET n == CHOOSE x \in ids : TRUE
         IN  stats[n][field] + SumOver(stats, field, ids \ {n})

\* the nodes whose statistics were collected
Collected(stats) == {n \in DOMAIN stats : stats[n] # NoStats}

\* the nodes generate_final_report puts in cs_times: both times are set
cs_times(stats) ==
    {n \in Collected(stats) :
        stats[n].cs_start_time # 0 /\ stats[n].cs_end_time # 0}

\* `overlaps = False`; the nested loop over cs_times only logs the intervals
\* and assigns nothing
overlaps(stats) == FALSE

mutual_exclusion_verdict(stats) ==
    IF ~overlaps(stats) THEN "VERIFIED" ELSE "WARNING"

\* total_messages_sent >= expected_total * 0.9
message_count_verdict(stats) ==
    LET total_cs_entries == SumOver(stats, "cs_entries", Collected(stats))
        total_messages_sent == SumOver(stats, "messages_sent", Collected(stats))
        expected_total == (2 * (total_nodes - 1)) * total_cs_entries
    IN  IF 10 * total_messages_sent >= 9 * expected_total
        THEN "VERIFIED" ELSE "WARNING"

\* one pass of the for loop of wait_for_nodes in which every node answers
wait_for_nodes ==
    /\ coord_pc = <<"wait", 0>>
    /\ \A n \in Members : Serving(n)
    /\ \A n \in Members : ping(n)
    /\ ready_nodes' = Members
    /\ coord_pc' = <<"sleep", 0>>
    /\ UNCHANGED <<pc, work, threads, calls, lost, stray, now, exit_ts,
                   response, all_stats, report, tasks, clock_lock,
                   byzVars>>

\* time.sleep(10 + total_nodes * 2), "wait for CS execution to complete": the
\* sleep is taken to last until every node has left exit_cs and every sender
\* thread has ended
coordinator_sleep ==
    /\ coord_pc = <<"sleep", 0>>
    /\ \A n \in Members : pc[n] = "done"
    /\ threads = {}
    /\ coord_pc' = <<"collect", 1>>
    /\ UNCHANGED <<nodeVars, pc, work, threads, calls, lost, stray, now,
                   exit_ts, shutdown_flag, response, ready_nodes, all_stats,
                   report, tasks, clock_lock,
                   byzVars>>

\* the position after the loop iteration for node n
after_node(phase, n, then) ==
    IF n = total_nodes THEN <<then, 0>> ELSE <<phase, n + 1>>

\* one iteration of the loop of collect_statistics; a node that does not
\* answer is logged and skipped
collect_statistics(n) ==
    /\ coord_pc = <<"collect", n>>
    /\ get_statistics(n)
    /\ all_stats' = IF Serving(n)
                    THEN [all_stats EXCEPT ![n] = StatsReply(n)]
                    ELSE all_stats
    /\ coord_pc' = after_node("collect", n, "report")
    /\ UNCHANGED <<pc, work, threads, calls, lost, stray, now, exit_ts,
                   response, ready_nodes, report, tasks, clock_lock,
                   byzVars>>

generate_final_report ==
    /\ coord_pc = <<"report", 0>>
    /\ report' = [mutual_exclusion |-> mutual_exclusion_verdict(all_stats),
                  message_count |-> message_count_verdict(all_stats)]
    /\ coord_pc' = <<"shutdown", 1>>
    /\ UNCHANGED <<nodeVars, pc, work, threads, calls, lost, stray, now,
                   exit_ts, shutdown_flag, response, ready_nodes, all_stats,
                   tasks, clock_lock,
                   byzVars>>

\* one iteration of the loop of shutdown_nodes; a node that does not answer
\* is logged and skipped
shutdown_nodes(n) ==
    /\ coord_pc = <<"shutdown", n>>
    /\ IF Serving(n) THEN shutdown(n)
       ELSE UNCHANGED <<nodeVars, shutdown_flag>>
    /\ coord_pc' = after_node("shutdown", n, "finished")
    /\ UNCHANGED <<pc, work, threads, calls, lost, stray, now, exit_ts,
                   response, ready_nodes, all_stats, report, tasks,
                   clock_lock,
                   byzVars>>

NextCoord ==
    \/ \E n \in Nodes : request_cs(n)
    \/ \E n \in Nodes : wait_for_cs_entry(n)
    \/ \E n \in Nodes : enter_cs(n)
    \/ \E n \in Nodes : execute_critical_section(n)
    \/ \E n \in Nodes : exit_cs(n)
    \/ \E m \in threads : Serving(m.dst) /\ SendRequest(m)
    \/ \E m \in threads : RequestReturn(m)
    \/ \E m \in threads : Serving(m.dst) /\ SendReply(m)
    \/ \E m \in threads : ReplyReturn(m)
    \/ \E m \in threads : ReleaseStamp(m)
    \/ \E m \in threads : Serving(m.dst) /\ SendRelease(m)
    \/ \E m \in threads : ReleaseReturn(m)
    \/ wait_for_nodes
    \/ coordinator_sleep
    \/ \E n \in Nodes : collect_statistics(n)
    \/ generate_final_report
    \/ \E n \in Nodes : shutdown_nodes(n)
    \/ \E n \in Nodes : stop_server(n)

\* the nodes with the coordinator, reliable delivery
SpecCoord == Init /\ [][NextCoord]_vars

\* two collected intervals [cs_start_time, cs_end_time] share a moment
IntervalsOverlap(stats) ==
    \E a \in cs_times(stats) : \E b \in cs_times(stats) :
        /\ a # b
        /\ stats[a].cs_start_time < stats[b].cs_end_time
        /\ stats[b].cs_start_time < stats[a].cs_end_time

\* C18 (coordinator verification of mutual exclusion): once the report is
\* made, it says VERIFIED only if no two collected intervals overlap and
\* WARNING if two of them do.
ReportMatchesIntervals ==
    (report.mutual_exclusion # "none") =>
        /\ (report.mutual_exclusion = "VERIFIED") => ~IntervalsOverlap(all_stats)
        /\ IntervalsOverlap(all_stats) => (report.mutual_exclusion = "WARNING")

----------------------------------------------------------------------------
\* the state of node n's own cycle as its two flags show it; Requesting is
\* passed inside request_cs
NodeState(n) ==
    IF in_cs[n] THEN "InCriticalSection"
    ELSE IF requesting_cs[n] THEN "AwaitingEntry"
    ELSE "Idle"

\* C19 (lifecycle order): in_cs is true only while requesting_cs is true, and
\* a node's state changes only from Idle to AwaitingEntry by request_cs, from
\* AwaitingEntry to InCriticalSection by enter_cs, and from InCriticalSection
\* to Idle by exit_cs.
LifecycleOrder ==
    /\ [](\A n \in Nodes : in_cs[n] => requesting_cs[n])
    /\ [][\A n \in Nodes :
             (NodeState(n)' # NodeState(n)) =>
                 \/ /\ NodeState(n) = "Idle"
                    /\ NodeState(n)' = "AwaitingEntry"
                    /\ request_cs(n)
                 \/ /\ NodeState(n) = "AwaitingEntry"
                    /\ NodeState(n)' = "InCriticalSection"
                    /\ enter_cs(n)
                 \/ /\ NodeState(n) = "InCriticalSection"
                    /\ NodeState(n)' = "Idle"
                    /\ exit_cs(n)]_vars

\* a node is back in Idle after its entry while another is inside
BackToIdleAfterEntry ==
    \E n \in Nodes : \E p \in Peers(n) :
        /\ NodeState(n) = "Idle"
        /\ cs_entry_count[n] = 1
        /\ cs_end_time[n] # 0
        /\ NodeState(p) = "InCriticalSection"

\* C20 (exit ordering): whenever a RELEASE thread of a node exists or a peer
\* has received the node's RELEASE, the node is outside the critical section
\* (in_cs and requesting_cs false) and its own queue holds no entry of its
\* own.
ReleaseAfterLeaving ==
    \A n \in Nodes :
        ( \/ \E m \in threads : m.kind = "RELEASE" /\ m.src = n
          \/ \E p \in Peers(n) : calls[<<"RELEASE", n, p>>] > 0 )
        => /\ ~in_cs[n]
           /\ ~requesting_cs[n]
           /\ EntriesOf(request_queue[n], n) = {}

\* a peer has received the node's RELEASE while the node's own queue still
\* holds the peer's entry
ReleaseReceivedQueueNotEmpty ==
    \E n \in Nodes : \E p \in Peers(n) :
        /\ calls[<<"RELEASE", n, p>>] = 1
        /\ Len(request_queue[n]) > 0

----------------------------------------------------------------------------
\* C21 (a REQUEST is always answered): whatever the state of the serving
\* node, the step that handles a REQUEST puts the request in the node's
\* queue, starts exactly one REPLY thread to the requester with a timestamp
\* greater than the request's, and returns with that REPLY not yet
\* delivered; the serving node's own cycle is not moved.
RequestAlwaysAnswered ==
    [][\A m \in threads :
          SendRequest(m) =>
              /\ <<m.ts, m.src>> \in Entries(request_queue'[m.dst])
              /\ \E ts \in (m.ts + 1)..(lamport_clock'[m.dst]) :
                     {t \in threads' \ threads : t.kind = "REPLY"} =
                         {Thread("REPLY", m.dst, m.src, ts, "call", 0)}
              /\ calls'[<<"REPLY", m.dst, m.src>>] =
                     calls[<<"REPLY", m.dst, m.src>>]
              /\ \E t \in threads' : t.kind = "REQUEST" /\ t.st = "resp"
                                     /\ t.src = m.src /\ t.dst = m.dst
              /\ UNCHANGED <<pc, requesting_cs, in_cs>>]_vars

\* a node inside the critical section has just handled a REQUEST: its REPLY
\* thread carries the node's current clock value and has not made its call
RepliedInsideCs ==
    \E m \in threads :
        /\ m.kind = "REPLY" /\ m.st = "call"
        /\ in_cs[m.src]
        /\ m.ts = lamport_clock[m.src]


\* request_cs leaves replies_received of the node empty and all REQUEST
\* threads of the new episode not yet sent
RequestResetsReplies ==
    [][\A n \in Nodes :
          request_cs(n) =>
              /\ replies_received'[n] = {}
              /\ \A t \in threads' :
                     (t.kind = "REQUEST" /\ t.src = n) => t.st = "call"]_vars

\* C22 (reply tracker scope): request_cs empties replies_received before any
\* REQUEST of the episode is sent; replies_received of a node always holds
\* ids of other nodes only, so at most N-1 of them; and the poll lets the
\* node through only when it holds all N-1 of them.
ReplyTrackerScope ==
    /\ RequestResetsReplies
    /\ [](\A n \in Nodes :
              /\ replies_received[n] \subseteq Peers(n)
              /\ Cardinality(replies_received[n]) <= total_nodes - 1)
    /\ [][\A n \in Nodes :
              wait_for_cs_entry(n) => replies_received[n] = Peers(n)]_vars

\* a waiting node holds the reply of every other node
QuorumReached ==
    \E n \in Nodes :
        /\ pc[n] = "wait"
        /\ replies_received[n] = Peers(n)
        /\ Cardinality(replies_received[n]) = total_nodes - 1
        /\ calls[<<"REQUEST", n, CHOOSE p \in Peers(n) : TRUE>>] = 1


\* C23 (per-pair ordering of REQUEST and REPLY): when a node X handles a
\* REPLY that a node Y stamped after Y had issued its own REQUEST, X has
\* already handled that REQUEST of Y; a REPLY does not overtake an earlier
\* REQUEST of the same sender to the same receiver.
ReplyNeverOvertakesRequest ==
    [][\A m \in threads :
          (/\ SendReply(m)
           /\ my_request_timestamp[m.src] # 0
           /\ my_request_timestamp[m.src] < m.ts)
          => calls[<<"REQUEST", m.src, m.dst>>] >= 1]_vars


\* C24 (entry order follows request order): at the step in which a node
\* enters the critical section, no other node that has requested and not
\* yet exited holds a smaller request key (request timestamp, node id).
EntryFollowsRequestOrder ==
    [][\A n \in Nodes :
          (~in_cs[n] /\ in_cs'[n]) =>
              \A p \in Peers(n) :
                  requesting_cs[p] =>
                      TupleLess(<<my_request_timestamp[n], n>>,
                                <<my_request_timestamp[p], p>>)]_vars


\* C25 (queue entries agree across nodes): every entry (ts, X) in the
\* request queue of any node carries the timestamp X drew in request_cs
\* (X's my_request_timestamp), and so does every REQUEST thread of X.
QueueEntriesAgree ==
    /\ \A n \in Nodes : \A e \in Entries(request_queue[n]) :
           /\ e[2] \in Nodes
           /\ my_request_timestamp[e[2]] # 0
           /\ e[1] = my_request_timestamp[e[2]]
    /\ \A t \in threads :
           t.kind = "REQUEST" => t.ts = my_request_timestamp[t.src]

\* every node holds the request of every node, its own included
AllQueuesHoldAllRequests ==
    \A n \in Nodes : \A x \in Nodes :
        <<my_request_timestamp[x], x>> \in Entries(request_queue[n])


\* C26 (RELEASE never precedes its REQUEST): a node Y that has a RELEASE of
\* X under way or handled has already handled X's REQUEST, and once Y has
\* handled X's RELEASE its queue holds no entry of X any more.
ReleaseFollowsRequest ==
    \A x \in Nodes : \A y \in Peers(x) :
        /\ (\E t \in threads : t.kind = "RELEASE" /\ t.src = x /\ t.dst = y)
               => calls[<<"REQUEST", x, y>>] >= 1
        /\ calls[<<"RELEASE", x, y>>] >= 1
               => /\ calls[<<"REQUEST", x, y>>] >= 1
                  /\ EntriesOf(request_queue[y], x) = {}

\* a node still waiting with its own request queued has handled the RELEASE
\* of a peer
ReleaseHandledWhileWaiting ==
    \E x \in Nodes : \E y \in Peers(x) :
        /\ calls[<<"RELEASE", x, y>>] = 1
        /\ pc[y] = "wait"
        /\ EntriesOf(request_queue[y], y) # {}


\* C27 (counters match traffic): once every sender and handler thread of a
\* node has finished, messages_sent is the number of its sender threads and
\* messages_received the number of its handler threads, whatever their
\* interleaving (3(N-1) each for the three sends and the three handled
\* calls of a node in a loss-free run).
CountersMatchTraffic ==
    \A n \in Nodes :
        (/\ Started # {}
         /\ \A t \in Started : tasks[t].node = n /\ tasks[t].st = "done")
        => /\ messages_sent[n] =
                  Cardinality({t \in Started : tasks[t].kind = "sender"})
           /\ messages_received[n] =
                  Cardinality({t \in Started : tasks[t].kind = "handler"})


----------------------------------------------------------------------------
\* The Byzantine agreement exercise (Assignment_2): commander.py drives
\* `lieutenants` node.py processes, each a single-threaded XML-RPC server,
\* so every remote call is one step and the commander's calls come in its
\* program order.  Sender 0 is "Commander", sender i is "Lieutenant-i".

MaxLieutenants == 4

Orders == {"ATTACK", "RETREAT"}

Commander == 0

\* the keys of NODES
build_lieutenant_nodes(count) == 1..count

\* the number of lieutenants started with the byzantine argument
Traitors == Cardinality({i \in build_lieutenant_nodes(lieutenants) :
                             is_byzantine[i]})

\* d[key] = value on a dict
Put(d, key, value) ==
    [k \in DOMAIN d \cup {key} |-> IF k = key THEN value ELSE d[k]]

\* "RETREAT" if order == "ATTACK" else "ATTACK"
flipped(o) == IF o = "ATTACK" THEN "RETREAT" ELSE "ATTACK"

\* the value receive_order stores
stored_order(byzantine, o) == IF byzantine THEN flipped(o) ELSE o

receive_order(i, sender_id, o) ==
    received_orders' = [received_orders EXCEPT ![i] =
        Put(@, sender_id, stored_order(is_byzantine[i], o))]

\* self.received_orders.get(sender_id, "UNKNOWN")
get_order_from(i, sender_id) ==
    IF sender_id \in DOMAIN received_orders[i]
    THEN received_orders[i][sender_id]
    ELSE "UNKNOWN"

\* votes.count(v)
votes_count(orders, v) ==
    Cardinality({s \in DOMAIN orders : orders[s] = v})

\* mutant: any value held is returned, whatever its count
decide_order_any(orders) == {orders[s] : s \in DOMAIN orders}

\* The values max(set(votes), key=votes.count) can return: max yields the
\* first element of greatest count in the iteration order of the set, and
\* the order of a set of strings follows the string hashes, which every
\* Python process salts on its own.  With equal counts either value can come
\* first; with no votes max raises and nothing is returned.
decide_order(orders) ==
    LET values == {orders[s] : s \in DOMAIN orders}
    IN  {v \in values :
            \A w \in values : votes_count(orders, v) >= votes_count(orders, w)}

\* run_simulation.py has started the lieutenants and the commander
InitLieutenants ==
    /\ lieutenants \in 1..MaxLieutenants
    /\ is_byzantine \in [build_lieutenant_nodes(lieutenants) -> BOOLEAN]
    /\ order \in Orders
    /\ received_orders = [i \in build_lieutenant_nodes(lieutenants) |-> <<>>]
    /\ decisions = <<>>
    /\ cmd_pc = CmdAt("send", 1, 0)

InitByz == InitNodes(Nodes) /\ InitLieutenants

\* one iteration of the loop of send_order
send_order(i) ==
    /\ cmd_pc = CmdAt("send", i, 0)
    /\ receive_order(i, Commander, order)
    /\ cmd_pc' = IF i < lieutenants THEN CmdAt("send", i + 1, 0)
                 ELSE CmdAt("forward", 1, 1)
    /\ UNCHANGED <<lieutenants, is_byzantine, order, decisions>>
    /\ UNCHANGED <<nodeVars, pc, work, threads, calls, lost, stray, now,
                   exit_ts, shutdown_flag, response, coordVars, tasks,
                   clock_lock>>

\* One iteration of the inner loop of forward_orders.  commander_order is
\* fetched once per sender; no call of the inner loop changes the sender's
\* "Commander" entry, so reading it at each iteration gives the same value.
forward_orders(sender, receiver) ==
    /\ cmd_pc = CmdAt("forward", sender, receiver)
    /\ LET commander_order == get_order_from(sender, Commander)
       IN  IF receiver # sender
           THEN receive_order(receiver, sender, commander_order)
           ELSE UNCHANGED received_orders
    /\ cmd_pc' = IF receiver < lieutenants
                     THEN CmdAt("forward", sender, receiver + 1)
                 ELSE IF sender < lieutenants
                     THEN CmdAt("forward", sender + 1, 1)
                 ELSE CmdAt("collect", 1, 0)
    /\ UNCHANGED <<lieutenants, is_byzantine, order, decisions>>
    /\ UNCHANGED <<nodeVars, pc, work, threads, calls, lost, stray, now,
                   exit_ts, shutdown_flag, response, coordVars, tasks,
                   clock_lock>>

\* one iteration of the loop of collect_decisions
collect_decisions(i) ==
    /\ cmd_pc = CmdAt("collect", i, 0)
    /\ \E decision \in decide_order(received_orders[i]) :
           decisions' = Put(decisions, i, decision)
    /\ cmd_pc' = IF i < lieutenants THEN CmdAt("collect", i + 1, 0)
                 ELSE CmdAt("done", 0, 0)
    /\ UNCHANGED <<lieutenants, is_byzantine, order, received_orders>>
    /\ UNCHANGED <<nodeVars, pc, work, threads, calls, lost, stray, now,
                   exit_ts, shutdown_flag, response, coordVars, tasks,
                   clock_lock>>

NextByz ==
    \/ \E i \in 1..MaxLieutenants : send_order(i)
    \/ \E s \in 1..MaxLieutenants, r \in 1..MaxLieutenants :
           forward_orders(s, r)
    \/ \E i \in 1..MaxLieutenants : collect_decisions(i)

SpecByz == InitByz /\ [][NextByz]_vars

\* the lieutenants started without the byzantine argument
Loyal == {i \in build_lieutenant_nodes(lieutenants) : ~is_byzantine[i]}

\* C28 (validity): when fewer lieutenants are Byzantine than not, every
\* decision the commander collects from a non-Byzantine lieutenant after the
\* send and forward rounds is the commander's order.
ByzantineValidity ==
    Traitors < lieutenants - Traitors =>
        \A i \in DOMAIN decisions : i \in Loyal => decisions[i] = order

\* all decisions are in, one of four lieutenants is Byzantine, and a loyal
\* lieutenant that holds the flipped order forwarded by it decided for the
\* commander's order
ValidDespiteTraitor ==
    /\ cmd_pc = CmdAt("done", 0, 0)
    /\ lieutenants = 4 /\ Traitors = 1
    /\ \E i \in Loyal : \E s \in DOMAIN received_orders[i] :
           /\ received_orders[i][s] # order
           /\ decisions[i] = order

\* C29 (agreement): whatever the number of lieutenants and whichever of
\* them are Byzantine, all decisions collected from non-Byzantine
\* lieutenants are equal, tied votes included.
ByzantineAgreement ==
    \A i \in DOMAIN decisions : \A j \in DOMAIN decisions :
        (i \in Loyal /\ j \in Loyal) => decisions[i] = decisions[j]


----------------------------------------------------------------------------
\* The request queue of one node under repeated cycles.  The four places
\* that write self.request_queue (request_cs, request_critical_section,
\* release_critical_section, exit_cs) do so under queue_lock, and the value
\* they leave depends on the list, the node ids and the timestamps only.
\* Here the nodes 1..RpcCycles of a system of BroadcastPeers + 1 nodes run
\* these statements for up to MaxCycles cycles, with timestamps drawn from
\* 1..MaxQueueTs in place of the clocks and peers' REQUEST and RELEASE calls
\* arriving at any moment; the queue is kept to MaxQueueLen entries.

MaxCycles == 2

MaxQueueTs == 3

MaxQueueLen == 4

\* request_cs: the flag, the request timestamp and the own entry
QueueOwnRequest(n, req_ts) ==
    /\ ~requesting_cs[n]
    /\ cs_entry_count[n] < MaxCycles
    /\ Len(request_queue[n]) < MaxQueueLen
    /\ requesting_cs' = [requesting_cs EXCEPT ![n] = TRUE]
    /\ my_request_timestamp' = [my_request_timestamp EXCEPT ![n] = req_ts]
    /\ request_queue' = [request_queue EXCEPT ![n] =
           own_enqueue(@, n, req_ts)]
    /\ UNCHANGED <<lamport_clock, replies_received, in_cs, cs_entry_count,
                   cs_start_time, cs_end_time, messages_sent,
                   messages_received, pc, work, threads, calls, lost, stray,
                   now, exit_ts, envVars>>

\* request_critical_section: the heappush of a peer's request
QueuePeerRequest(n, peer, ts) ==
    /\ Len(request_queue[n]) < MaxQueueLen
    /\ request_queue' = [request_queue EXCEPT ![n] =
           enqueue_request(@, peer, ts)]
    /\ UNCHANGED <<lamport_clock, replies_received, requesting_cs, in_cs,
                   my_request_timestamp, cs_entry_count, cs_start_time,
                   cs_end_time, messages_sent, messages_received, pc, work,
                   threads, calls, lost, stray, now, exit_ts, envVars>>

\* release_critical_section: the filter and the heapify
QueuePeerRelease(n, peer) ==
    /\ request_queue' = [request_queue EXCEPT ![n] =
           remove_released(@, peer)]
    /\ UNCHANGED <<lamport_clock, replies_received, requesting_cs, in_cs,
                   my_request_timestamp, cs_entry_count, cs_start_time,
                   cs_end_time, messages_sent, messages_received, pc, work,
                   threads, calls, lost, stray, now, exit_ts, envVars>>

\* wait_for_cs_entry finds the node's entry in request_queue[0] and enter_cs
\* follows (the replies are not followed here)
QueueEnter(n) ==
    /\ requesting_cs[n] /\ ~in_cs[n]
    /\ at_head(request_queue[n], n)
    /\ in_cs' = [in_cs EXCEPT ![n] = TRUE]
    /\ cs_entry_count' = [cs_entry_count EXCEPT ![n] = @ + 1]
    /\ UNCHANGED <<lamport_clock, request_queue, replies_received,
                   requesting_cs, my_request_timestamp, cs_start_time,
                   cs_end_time, messages_sent, messages_received, pc, work,
                   threads, calls, lost, stray, now, exit_ts, envVars>>

\* exit_cs: the flags, the filter and the heapify
QueueExit(n) ==
    /\ in_cs[n]
    /\ in_cs' = [in_cs EXCEPT ![n] = FALSE]
    /\ requesting_cs' = [requesting_cs EXCEPT ![n] = FALSE]
    /\ request_queue' = [request_queue EXCEPT ![n] =
           heapify(without_node(@, n))]
    /\ UNCHANGED <<lamport_clock, replies_received, my_request_timestamp,
                   cs_entry_count, cs_start_time, cs_end_time, messages_sent,
                   messages_received, pc, work, threads, calls, lost, stray,
                   now, exit_ts, envVars>>

NextQueue ==
    \/ \E n \in 1..RpcCycles, ts \in 1..MaxQueueTs : QueueOwnRequest(n, ts)
    \/ \E n \in 1..RpcCycles : \E peer \in Peers(n), ts \in 1..MaxQueueTs :
           QueuePeerRequest(n, peer, ts)
    \/ \E n \in 1..RpcCycles : \E peer \in Peers(n) :
           QueuePeerRelease(n, peer)
    \/ \E n \in 1..RpcCycles : QueueEnter(n)
    \/ \E n \in 1..RpcCycles : QueueExit(n)

SpecQueue == InitBroadcast /\ [][NextQueue]_vars

\* C30 (queue head is the minimum): in every state the first element of a
\* node's non-empty request queue, the one wait_for_cs_entry reads, is not
\* greater than any element of the queue under (timestamp, node id) order.
QueueHeadIsMinimum ==
    \A n \in Members :
        Len(request_queue[n]) > 0 =>
            \A e \in Entries(request_queue[n]) :
                ~TupleLess(e, request_queue[n][1])

\* a node polls in its second cycle on a queue of at least three entries,
\* its own neither first nor last in the list
SecondCyclePollsDeepQueue ==
    \E n \in Members :
        /\ requesting_cs[n] /\ ~in_cs[n]
        /\ cs_entry_count[n] = 1
        /\ Len(request_queue[n]) >= 3
        /\ request_queue[n][2][2] = n

====
